---- MODULE Spec2Model ----
(***************************************************************************)
(* The FileUpload component of the Gotex frontend, in its two variants:    *)
(*   "overlay"  QueryInterface.tsx lines 476-852 (isProcessing/showDone    *)
(*              overlay, delete support)                                   *)
(*   "text"     components/FileUpload.tsx (uploadStatus text)              *)
(* together with the requests it has in flight, its pending display-delay  *)
(* timers and the backend registry it talks to.                            *)
(*                                                                         *)
(* An async handler is one action up to its first await (the request is    *)
(* issued there) and one action for its continuation, which runs with the  *)
(* outcome of the request.  A request is "sent" while the handler awaits   *)
(* it and "done" once the continuation has run; a listing the backend has  *)
(* answered, and whose answer is on its way, is "served" in between.       *)
(*                                                                         *)
(* The query entry points are modelled next to it: QueryInterface          *)
(* (QueryInterface.tsx lines 1-353) with its history in memory and in      *)
(* localStorage, and the inline Ask flow of the section-based App shell    *)
(* (App.tsx).  A query request in flight carries what the closure of its   *)
(* handleQuery call captured.                                              *)
(*                                                                         *)
(* Specifications:                                                         *)
(*   Spec      the FileUpload component (the query view idle)              *)
(*   SpecQ     a query entry point: ask, history, clear, remount           *)
(*   SpecLong  one QueryInterface instance asked question after question   *)
(*   SpecEdit  one QueryInterface instance whose input is edited while     *)
(*             requests are in flight                                      *)
(*   SpecM     the market panel (TradingChart), its refreshes overlapping  *)
(*   SpecL     the Learning view                                           *)
(*   SpecLive  the overlay FileUpload, its requests settling and its       *)
(*             timers firing                                               *)
(***************************************************************************)
EXTENDS Integers, Sequences, FiniteSets, TLC

VARIABLES
  variant,       \* which FileUpload component is mounted
  selectedFile,  \* useState<File | null>
  youtubeUrl,    \* useState<string>, a sequence of characters
  uploadMode,    \* useState<'file' | 'youtube'>
  fileType,      \* useState<string>
  files,         \* useState<FileInfo[]>, the local registry list
  isProcessing,  \* overlay variant: useState<boolean>
  showDone,      \* overlay variant: useState<boolean>
  uploadStatus,  \* text variant: useState<string>, the parts of the message
  net,           \* every request the component issued, in order of issue
  timers,        \* submits whose setTimeout(..., 2000) callback is pending
  serverFiles,   \* the backend's registry, in listing order
  submits,       \* the accepted submits, in order (what the user submitted)
  callbacks,     \* the calls of onUpload, in order
  alerts,        \* the window.alert messages shown, in order
  clicks,        \* number of handleUpload invocations
  prompts,       \* number of window.confirm dialogs shown
  dialogs,       \* the window.confirm dialogs shown, in order, with their answers
  view,          \* which query entry point is mounted
  query,         \* useState<string>, a sequence of characters
  answer,        \* useState<string>
  loading,       \* useState<boolean>
  error,         \* useState<string>
  sources,       \* QueryInterface: useState<string[]>
  queryHistory,  \* QueryInterface: useState<QueryHistory[]>
  showHistory,   \* QueryInterface: useState<boolean>
  storage,       \* localStorage item 'queryHistory'
  asks,          \* the query requests in flight, in order of issue
  last,          \* the query request settled last, with its response
  sent,          \* number of query requests issued
  now,           \* Date.now(), in clock readings
  inst,          \* the mounted instance of the query view (counts remounts)
  clears,        \* number of clearHistory invocations
  chartMounted,  \* whether TradingChart is on the page
  symbol,        \* TradingChart: the symbol prop
  lastUpdate,    \* TradingChart: useState<string>, '' or a time of day
  currentPrice,  \* TradingChart: useState<number>
  marketStatus,  \* TradingChart: useState<string>
  isLoading,     \* TradingChart: useState(false)
  chartError,    \* TradingChart: useState<string | null>, its error
  intervals,     \* the symbols whose loadMarketData a setInterval schedules
  loads,         \* the loadMarketData calls awaiting Promise.all, in order of start
  lastLoad,      \* the loadMarketData call completed last, with its outcome
  started,       \* number of loadMarketData calls
  startedBy,     \* what called loadMarketData last
  clock,         \* the time of day, in readings
  chart,         \* the mounted instance of TradingChart (counts mounts)
  shown,         \* the loadMarketData call that wrote the displayed values
  learnMounted,  \* whether Learning is on the page
  stats,         \* Learning: useState<LearningStats | null>
  learnLoading,  \* Learning: useState<boolean>, its loading
  learnError,    \* Learning: useState<string>, its error
  activeTab,     \* Learning: useState<string>
  fetching,      \* number of fetchLearningStats calls awaiting their response
  fetches        \* number of fetchLearningStats calls

vars == <<view, query, answer, loading, error, sources, queryHistory,
          showHistory, storage, asks, last, sent, now, inst, clears,
          variant, selectedFile, youtubeUrl, uploadMode, fileType, files,
          isProcessing, showDone, uploadStatus, net, timers, serverFiles,
          submits, callbacks, alerts, clicks, prompts, dialogs,
          chartMounted, symbol, lastUpdate, currentPrice, marketStatus, isLoading,
          chartError, intervals, loads, lastLoad, started, startedBy,
          clock, chart, shown,
          learnMounted, stats, learnLoading, learnError, activeTab, fetching,
          fetches>>

\* the state of the query entry point
qvars == <<view, query, answer, loading, error, sources, queryHistory,
           showHistory, storage, asks, last, sent, now, inst, clears>>

\* the state of the FileUpload component, its requests and the registry
uvars == <<variant, selectedFile, youtubeUrl, uploadMode, fileType, files,
           isProcessing, showDone, uploadStatus, net, timers, serverFiles,
           submits, callbacks, alerts, clicks, prompts, dialogs>>

\* the state of the market panel
mvars == <<chartMounted, symbol, lastUpdate, currentPrice, marketStatus, isLoading,
           chartError, intervals, loads, lastLoad, started, startedBy,
           clock, chart, shown>>

\* the state of the Learning view
lvars == <<learnMounted, stats, learnLoading, learnError, activeTab, fetching,
           fetches>>

\* the state of the panels next to the upload and query views
pvars == <<mvars, lvars>>

(* ------------------------------ bounds -------------------------------- *)
MaxOps == 2     \* handleUpload and handleDeleteFile invocations explored
MaxAsks == 3    \* query requests explored
MaxLongAsks == 22   \* query requests of the one-instance specification
MaxOutstanding == 2 \* query requests in flight at a time
MaxClears == 1  \* clearHistory invocations explored
MaxMounts == 1  \* remounts of the query view explored
MaxEditAsks == 2    \* query requests of the edited-input specification
MaxRefreshes == 3   \* loadMarketData calls explored
MaxLoads == 2       \* loadMarketData calls awaiting their responses at a time
MaxFetches == 2     \* fetchLearningStats calls explored
MaxChartMounts == 2 \* mounts of TradingChart explored

(* ------------------------ program constants --------------------------- *)
HistoryLimit == 20  \* saveQueryHistory: slice(0, 20)

(* ------------------------------ values -------------------------------- *)
Variants  == {"overlay", "text"}
NoFile    == "null"
FileNames == {"b.png"}                 \* files the user picks (a.pdf is on the backend)
Urls      == {<<>>, <<" ">>, <<"u">>}   \* empty, whitespace-only, non-blank
FileTypes == {"document"}              \* the tag is only passed on in the form
ErrorTexts == {"", "rejected"}         \* error field absent, present

RECURSIVE TrimStart(_)
TrimStart(s) == IF s # <<>> /\ Head(s) = " " THEN TrimStart(Tail(s)) ELSE s

RECURSIVE TrimEnd(_)
TrimEnd(s) ==
  IF s # <<>> /\ s[Len(s)] = " " THEN TrimEnd(SubSeq(s, 1, Len(s) - 1)) ELSE s

\* String.prototype.trim
Trim(s) == TrimEnd(TrimStart(s))

\* a parsed JSON body; a field the body does not carry is "" (or <<>>)
Body(filename, url, status, err, hasFiles, listed) ==
  [filename |-> filename, url |-> url, status |-> status, error |-> err,
   hasFiles |-> hasFiles, files |-> listed]

NoBody == Body("", <<>>, "", "", FALSE, <<>>)

\* outcome of a request: kind is "none" while it is in flight, "ok" for a 2xx
\* response, "http_err" for a non-2xx response with a JSON body, "bad_body"
\* for a non-2xx response whose body is not JSON, "transport" when fetch rejects
Resp(kind, body) == [kind |-> kind, body |-> body]

Cause(by, n) == [by |-> by, n |-> n]

Req(method, path, form, cause) ==
  [method |-> method, path |-> path, form |-> form, cause |-> cause,
   st |-> "sent", resp |-> Resp("none", NoBody)]

Form(file, url, file_type) == [file |-> file, url |-> url, file_type |-> file_type]

FileInfo(filename, processed) == [filename |-> filename, processed |-> processed]

Reqs == DOMAIN net

Names(list) == [i \in DOMAIN list |-> list[i].filename]

RECURSIVE Without(_, _)
Without(list, name) ==
  IF list = <<>> THEN <<>>
  ELSE IF Head(list).filename = name THEN Without(Tail(list), name)
  ELSE <<Head(list)>> \o Without(Tail(list), name)


\* the text variant's status line: `${msg}${name}${url}${err}`
Status(msg, name, url, err) == [msg |-> msg, name |-> name, url |-> url, err |-> err]

NoStatus == Status("", "", <<>>, "")

(* ----------------------- the query entry points ------------------------ *)
(* "component"  QueryInterface (QueryInterface.tsx lines 1-353), with its  *)
(*              history in memory and in localStorage                      *)
(* "shell"      the inline Ask flow of the section-based App (App.tsx)     *)
(* A request in flight carries what the closure of its handleQuery call    *)
(* captured: the instance, the question and the history of that render.    *)

Views     == {"component", "shell"}
Questions == {<<>>, <<" ">>, <<"q">>}   \* empty, whitespace-only, non-blank
EditQuestions == Questions \cup {<<"p">>}  \* with a second non-blank question
Suggested == <<"q">>                    \* an entry of suggestedQuestions

\* the JSON body of a query response; a field the body does not carry is ""
\* (answer, error) or flagged absent (sources)
QBody(ans, hasSources, srcs, err) ==
  [answer |-> ans, hasSources |-> hasSources, sources |-> srcs, error |-> err]

NoQBody == QBody("", FALSE, <<>>, "")

\* a QueryHistory record; timestamp is a Date in memory
QueryRecord(id, question, ans, hasSources, srcs) ==
  [id |-> id, question |-> question, answer |-> ans,
   timestamp |-> [date |-> id], hasSources |-> hasSources, sources |-> srcs]

\* JSON.stringify of the history: a Date is written as its ISO string
Stringify(history) ==
  [k \in DOMAIN history |->
     [history[k] EXCEPT !.timestamp = [iso |-> history[k].timestamp.date]]]

\* JSON.parse(saved).map(item => ({...item, timestamp: new Date(item.timestamp)}))
Parse(json) ==
  [k \in DOMAIN json |->
     [json[k] EXCEPT !.timestamp = [date |-> json[k].timestamp.iso]]]

\* the localStorage item: absent, or the string last written
NoItem == [present |-> FALSE, json |-> <<>>]

Item(json) == [present |-> TRUE, json |-> json]

\* no query request has settled yet
NoAnswer ==
  [n |-> 0, inst |-> 0, question |-> <<>>, input |-> <<>>,
   resp |-> Resp("none", NoQBody)]

\* the state of a query view after construction
QueryMounted ==
  /\ query = <<>>
  /\ answer = ""
  /\ loading = FALSE
  /\ error = ""
  /\ sources = <<>>
  /\ queryHistory = <<>>
  /\ showHistory = FALSE

(* --------------------------- the market panel ------------------------- *)
(* TradingChart (services/marketService.ts lines 441-645) with the calls  *)
(* of MarketService it awaits.  A loadMarketData call awaits Promise.all   *)
(* of a status call and a live-data call; it completes when both have      *)
(* resolved or when the first of them rejects.                             *)

Symbols == {"XAUUSD", "EURUSD"}
NoPrice == -1                 \* a live-data body without current_price
NoError == "null"             \* useState<string | null>(null)

\* outcome of one call of MarketService: "pending" while it is awaited, "ok"
\* with the field read from the parsed body, "failed" when it throws (the
\* fetch rejects, the response is not ok, or the body does not parse)
Call(kind, value) == [kind |-> kind, value |-> value]

StatusOutcomes == {Call("ok", "open"), Call("ok", ""), Call("failed", "")}
LiveOutcomes == {Call("ok", 2), Call("ok", NoPrice), Call("failed", NoPrice)}

\* a loadMarketData call of instance i for symbol s, up to its await
Load(n, i, s) ==
  [n |-> n, inst |-> i, symbol |-> s,
   status |-> Call("pending", ""), live |-> Call("pending", NoPrice)]

NoLoad == [n |-> 0, inst |-> 0, ok |-> FALSE,
           status |-> Call("pending", ""), live |-> Call("pending", NoPrice)]

\* TradingChart before it is mounted
ChartUnmounted ==
  /\ chartMounted = FALSE
  /\ symbol = "XAUUSD"
  /\ lastUpdate = <<>>
  /\ currentPrice = 0
  /\ marketStatus = "Unknown"
  /\ isLoading = FALSE
  /\ chartError = NoError
  /\ intervals = {}
  /\ loads = <<>>
  /\ lastLoad = NoLoad
  /\ started = 0
  /\ startedBy = "none"
  /\ clock = 0
  /\ chart = 0
  /\ shown = 0

(* --------------------------- the Learning view ------------------------ *)
(* Learning (services/marketService.ts lines 88-433): the statistics it    *)
(* fetched and what it renders of them.  A frequency map or the timeline   *)
(* is modelled by its number of entries.                                   *)

Sizes == {0, 2}               \* an empty collection, one with entries
Tabs == {"stats", "concepts", "patterns", "indicators", "timeline", "charts"}

\* the parsed body of GET /learning/stats/
Stats(concepts, patterns, indicators, timeline, content_types) ==
  [loaded |-> TRUE, concepts |-> concepts, patterns |-> patterns,
   indicators |-> indicators, timeline |-> timeline,
   content_types |-> content_types]

\* useState<LearningStats | null>(null)
NoStats ==
  [loaded |-> FALSE, concepts |-> 0, patterns |-> 0, indicators |-> 0,
   timeline |-> 0, content_types |-> 0]

\* Learning before it is mounted
LearningUnmounted ==
  /\ learnMounted = FALSE
  /\ stats = NoStats
  /\ learnLoading = FALSE
  /\ learnError = ""
  /\ activeTab = "stats"
  /\ fetching = 0
  /\ fetches = 0

\* what the view renders: a paragraph, a table with its body rows, the
\* summary box, the chart images
Message(text) == [what |-> "message", text |-> text, rows |-> 0]
Table(of, rows) == [what |-> "table", text |-> of, rows |-> rows]
Summary == [what |-> "summary", text |-> "Learning Summary", rows |-> 0]
Charts == [what |-> "charts", text |-> "Concepts Chart", rows |-> 0]

renderConceptsTable ==
  IF ~stats.loaded \/ stats.concepts = 0
  THEN Message("No concepts learned yet.")
  ELSE Table("concepts", stats.concepts)

renderPatternsTable ==
  IF ~stats.loaded \/ stats.patterns = 0
  THEN Message("No patterns learned yet.")
  ELSE Table("patterns", stats.patterns)

renderIndicatorsTable ==
  IF ~stats.loaded \/ stats.indicators = 0
  THEN Message("No indicators learned yet.")
  ELSE Table("indicators", stats.indicators)

renderTimelineTable ==
  IF ~stats.loaded \/ stats.timeline = 0
  THEN Message("No learning timeline data yet.")
  ELSE Table("timeline", stats.timeline)

\* renderContent: the loading line, the error box, the no-data line, or the
\* active tab
renderContent ==
  IF learnLoading THEN <<Message("Loading learning data...")>>
  ELSE IF learnError # "" THEN <<Message(learnError)>>
  ELSE IF ~stats.loaded THEN <<Message("No learning data available.")>>
  ELSE CASE activeTab = "stats" -> <<Summary, Table("content_types", stats.content_types)>>
         [] activeTab = "concepts" -> <<renderConceptsTable>>
         [] activeTab = "patterns" -> <<renderPatternsTable>>
         [] activeTab = "indicators" -> <<renderIndicatorsTable>>
         [] activeTab = "timeline" -> <<renderTimelineTable>>
         [] activeTab = "charts" -> <<Charts>>
         [] OTHER -> <<>>

(* --------------------------- the component ---------------------------- *)

\* fetchFiles, were it to issue the listing request twice
FetchFilesTwice(n, cause) ==
  Append(Append(n, Req("GET", "/files/", Form(NoFile, <<>>, ""), cause)),
         Req("GET", "/files/", Form(NoFile, <<>>, ""), cause))

\* fetchFiles up to its await: one GET /files/
FetchFiles(n, cause) ==
  Append(n, Req("GET", "/files/", Form(NoFile, <<>>, ""), cause))

Init ==
  /\ variant \in Variants
  /\ selectedFile = NoFile
  /\ youtubeUrl = <<>>
  /\ uploadMode = "file"
  /\ fileType = "document"
  /\ files = <<>>
  /\ isProcessing = FALSE
  /\ showDone = FALSE
  /\ uploadStatus = NoStatus
  /\ net = FetchFiles(<<>>, Cause("mount", 0))
  /\ timers = {}
  /\ serverFiles = <<FileInfo("a.pdf", TRUE)>>
  /\ submits = <<>>
  /\ callbacks = <<>>
  /\ alerts = <<>>
  /\ clicks = 0
  /\ prompts = 0
  /\ dialogs = <<>>
  /\ view = "component"
  /\ QueryMounted
  /\ storage = NoItem
  /\ asks = <<>>
  /\ last = NoAnswer
  /\ sent = 0
  /\ now = 0
  /\ inst = 0
  /\ clears = 0
  /\ ChartUnmounted
  /\ LearningUnmounted

\* the overlay variant disables its inputs while the overlay is up
InputsEnabled == variant = "overlay" => ~isProcessing

HandleFileChange(f) ==
  /\ uploadMode = "file"
  /\ InputsEnabled
  /\ clicks + prompts < MaxOps
  /\ selectedFile' = f
  /\ UNCHANGED <<variant, youtubeUrl, uploadMode, fileType, files, isProcessing,
                 showDone, uploadStatus, net, timers, serverFiles, submits,
                 callbacks, alerts, clicks, prompts>>
  /\ UNCHANGED <<dialogs, qvars, pvars>>

HandleYoutubeUrlChange(u) ==
  /\ uploadMode = "youtube"
  /\ InputsEnabled
  /\ clicks + prompts < MaxOps
  /\ youtubeUrl' = u
  /\ UNCHANGED <<variant, selectedFile, uploadMode, fileType, files, isProcessing,
                 showDone, uploadStatus, net, timers, serverFiles, submits,
                 callbacks, alerts, clicks, prompts>>
  /\ UNCHANGED <<dialogs, qvars, pvars>>

SetUploadMode(m) ==
  /\ InputsEnabled
  /\ clicks + prompts < MaxOps
  /\ uploadMode' = m
  /\ UNCHANGED <<variant, selectedFile, youtubeUrl, fileType, files, isProcessing,
                 showDone, uploadStatus, net, timers, serverFiles, submits,
                 callbacks, alerts, clicks, prompts>>
  /\ UNCHANGED <<dialogs, qvars, pvars>>

HandleFileTypeChange(t) ==
  /\ InputsEnabled
  /\ clicks + prompts < MaxOps
  /\ variant = "text" => uploadMode = "file"
  /\ fileType' = t
  /\ UNCHANGED <<variant, selectedFile, youtubeUrl, uploadMode, files, isProcessing,
                 showDone, uploadStatus, net, timers, serverFiles, submits,
                 callbacks, alerts, clicks, prompts>>
  /\ UNCHANGED <<dialogs, qvars, pvars>>

\* the disabled attribute of the upload button
UploadButtonDisabled ==
  IF variant = "overlay"
  THEN IF uploadMode = "file"
       THEN selectedFile = NoFile \/ isProcessing
       ELSE Trim(youtubeUrl) = <<>> \/ isProcessing
  ELSE IF uploadMode = "file"
       THEN selectedFile = NoFile
       ELSE Trim(youtubeUrl) = <<>>

\* handleUpload's two early-return conditions
NoFileSelected == uploadMode = "file" /\ selectedFile = NoFile

\* the URL check, were it to test the URL without trimming it
NoUrlEnteredNoTrim == uploadMode = "youtube" /\ youtubeUrl = <<>>

NoUrlEntered == uploadMode = "youtube" /\ Trim(youtubeUrl) = <<>>

\* the endpoint, were both branches to post to the file endpoint
UploadPathFileOnly(mode) == "/upload/"

\* the endpoint handleUpload posts to
UploadPath(mode) == IF mode = "file" THEN "/upload/" ELSE "/upload-youtube/"

\* the FormData handleUpload builds
UploadForm ==
  IF uploadMode = "file"
  THEN Form(selectedFile, <<>>, fileType)
  ELSE Form(NoFile, youtubeUrl, "video")

\* what the user submitted, recorded when handleUpload accepts it
Submitted ==
  [mode |-> uploadMode, file |-> selectedFile, url |-> youtubeUrl, tag |-> fileType]

UploadReq == Req("POST", UploadPath(uploadMode), UploadForm,
                 Cause("upload", Len(submits) + 1))

\* handleUpload up to its await, overlay variant
HandleUploadOverlay ==
  /\ clicks' = clicks + 1
  /\ IF NoFileSelected \/ NoUrlEntered
     THEN UNCHANGED <<isProcessing, showDone, net, submits>>
     ELSE /\ isProcessing' = TRUE
          /\ showDone' = FALSE
          /\ net' = Append(net, UploadReq)
          /\ submits' = Append(submits, Submitted)
  /\ UNCHANGED <<variant, selectedFile, youtubeUrl, uploadMode, fileType, files,
                 uploadStatus, timers, serverFiles, callbacks, alerts, prompts>>
  /\ UNCHANGED <<dialogs, qvars, pvars>>

\* handleUpload up to its await, text variant
HandleUploadText ==
  /\ clicks' = clicks + 1
  /\ IF NoFileSelected
     THEN /\ uploadStatus' = Status("Please select a file first.", "", <<>>, "")
          /\ UNCHANGED <<net, submits>>
     ELSE IF NoUrlEntered
     THEN /\ uploadStatus' = Status("Please enter a YouTube URL.", "", <<>>, "")
          /\ UNCHANGED <<net, submits>>
     ELSE /\ uploadStatus' = Status("Uploading...", "", <<>>, "")
          /\ net' = Append(net, UploadReq)
          /\ submits' = Append(submits, Submitted)
  /\ UNCHANGED <<variant, selectedFile, youtubeUrl, uploadMode, fileType, files,
                 isProcessing, showDone, timers, serverFiles, callbacks, alerts,
                 prompts>>
  /\ UNCHANGED <<dialogs, qvars, pvars>>

HandleUpload ==
  IF variant = "overlay" THEN HandleUploadOverlay ELSE HandleUploadText

\* a click on the enabled upload button
ClickUpload ==
  /\ clicks + prompts < MaxOps
  /\ ~UploadButtonDisabled
  /\ HandleUpload

\* handleUpload reached although nothing is there to submit (the button is
\* disabled then; a submit that does not go through it)
SubmitEmpty ==
  /\ clicks + prompts < MaxOps
  /\ \/ uploadMode = "file" /\ selectedFile = NoFile
     \/ uploadMode = "youtube" /\ \A i \in DOMAIN youtubeUrl : youtubeUrl[i] = " "
  /\ HandleUpload


InFlight(r) == r \in Reqs /\ net[r].st = "sent"

\* a finished request keeps the kind of its outcome, the body of a
\* successful POST and the error text a DELETE was refused with
Finish(n, r, resp) ==
  [n EXCEPT ![r].st = "done",
            ![r].resp = IF n[r].method = "POST" /\ resp.kind = "ok"
                        THEN resp
                        ELSE Resp(resp.kind,
                                  [NoBody EXCEPT !.hasFiles = resp.body.hasFiles,
                                                 !.error = IF n[r].method = "DELETE"
                                                           THEN resp.body.error
                                                           ELSE ""])]

\* `await response.json()` throws for a body that is not JSON, and is never
\* reached when fetch itself rejected
JsonThrows(resp) == resp.kind \in {"transport", "bad_body"}

\* the success test, were the status of the response not looked at
ResponseOkAnyStatus(resp) == resp.kind \in {"ok", "http_err"}

\* response.ok
ResponseOk(resp) == resp.kind = "ok"

\* `x || fallback`, were the fallback left out
OrElseNoFallback(x, fallback) == x

\* `x || fallback` on a string
OrElse(x, fallback) == IF x = "" THEN fallback ELSE x

\* onUpload?.(result)
OnUpload(r, resp) == Append(callbacks, [sub |-> net[r].cause.n, result |-> resp.body])

\* the rest of handleUpload once its POST has settled, overlay variant
UploadSettledOverlay(r, resp) ==
  IF JsonThrows(resp)
  THEN /\ isProcessing' = FALSE
       /\ showDone' = FALSE
       /\ net' = Finish(net, r, resp)
       /\ UNCHANGED <<selectedFile, youtubeUrl, callbacks, timers>>
  ELSE /\ IF ResponseOk(resp)
          THEN /\ IF net[r].path = "/upload/"
                  THEN selectedFile' = NoFile /\ UNCHANGED youtubeUrl
                  ELSE youtubeUrl' = <<>> /\ UNCHANGED selectedFile
               /\ callbacks' = OnUpload(r, resp)
          ELSE UNCHANGED <<selectedFile, youtubeUrl, callbacks>>
       /\ showDone' = TRUE
       /\ timers' = timers \cup {net[r].cause.n}
       /\ net' = Finish(net, r, resp)
       /\ UNCHANGED isProcessing

\* the rest of handleUpload once its POST has settled, text variant
UploadSettledText(r, resp) ==
  IF JsonThrows(resp)
  THEN /\ uploadStatus' =
            Status("Upload failed: ", "", <<>>,
                   IF resp.kind = "transport" THEN "TypeError: Failed to fetch"
                   ELSE "SyntaxError")
       /\ net' = Finish(net, r, resp)
       /\ UNCHANGED <<selectedFile, youtubeUrl, callbacks>>
  ELSE IF ResponseOk(resp)
  THEN /\ IF net[r].path = "/upload/"
          THEN /\ uploadStatus' = Status("File uploaded successfully: ",
                                         resp.body.filename, <<>>, "")
               /\ selectedFile' = NoFile
               /\ UNCHANGED youtubeUrl
          ELSE /\ uploadStatus' = Status("YouTube video processing started: ", "",
                                         resp.body.url, "")
               /\ youtubeUrl' = <<>>
               /\ UNCHANGED selectedFile
       /\ net' = FetchFiles(Finish(net, r, resp), net[r].cause)
       /\ callbacks' = OnUpload(r, resp)
  ELSE /\ uploadStatus' = Status("Upload failed: ", "", <<>>,
                                 OrElse(resp.body.error, "Unknown error"))
       /\ net' = Finish(net, r, resp)
       /\ UNCHANGED <<selectedFile, youtubeUrl, callbacks>>

(* ------------------------------ backend ------------------------------- *)

\* a non-2xx answer: a JSON body with or without an error field, or no JSON
Refusals == {Resp("http_err", Body("", <<>>, "", e, FALSE, <<>>)) : e \in ErrorTexts}
              \cup {Resp("bad_body", NoBody)}

Lost == Resp("transport", NoBody)

Outcome(resp, registry) == [resp |-> resp, registry |-> registry]

\* POST /upload/ stores the file, unprocessed, under its name; POST
\* /upload-youtube/ registers the URL.  The response may be lost on its way
\* back, and the request may never arrive.
BackendUpload(req) ==
  LET stored == IF req.path = "/upload/"
                THEN Append(Without(serverFiles, req.form.file),
                            FileInfo(req.form.file, FALSE))
                ELSE serverFiles
      ack == IF req.path = "/upload/"
             THEN Body(req.form.file, <<>>, "uploaded", "", FALSE, <<>>)
             ELSE Body("", req.form.url, "processing", "", FALSE, <<>>)
  IN {Outcome(Resp("ok", ack), stored), Outcome(Lost, stored),
      Outcome(Lost, serverFiles)}
       \cup {Outcome(refusal, serverFiles) : refusal \in Refusals}

\* DELETE /files/{filename} removes a file it knows and refuses any other
BackendDelete(req) ==
  IF \E i \in DOMAIN serverFiles : serverFiles[i].filename = req.form.file
  THEN {Outcome(Resp("ok", NoBody), Without(serverFiles, req.form.file)),
        Outcome(Lost, Without(serverFiles, req.form.file)),
        Outcome(Lost, serverFiles)}
  ELSE {Outcome(Lost, serverFiles)}
         \cup {Outcome(refusal, serverFiles) : refusal \in Refusals}

\* GET /files/ answers with the registry as it is when the request is served
BackendList == Resp("ok", Body("", <<>>, "", "", TRUE, serverFiles))

\* a listing that fails, or that carries no files field
ListFailures == {Resp("ok", NoBody), Resp("http_err", NoBody), Lost}

(* ------------------------- the continuations -------------------------- *)

UploadSettled(r, o) ==
  /\ InFlight(r)
  /\ net[r].method = "POST"
  /\ o \in BackendUpload(net[r])
  /\ serverFiles' = o.registry
  /\ IF variant = "overlay"
     THEN UploadSettledOverlay(r, o.resp) /\ UNCHANGED uploadStatus
     ELSE UploadSettledText(r, o.resp) /\ UNCHANGED <<isProcessing, showDone, timers>>
  /\ UNCHANGED <<variant, uploadMode, fileType, files, submits, alerts, clicks,
                 prompts>>
  /\ UNCHANGED <<dialogs, qvars, pvars>>

\* the setTimeout callback of handleUpload, 2000 ms after the POST settled
\* the display-delay callback, were it to leave the overlay up
TimerFireKeepsOverlay(i) ==
  /\ i \in timers
  /\ timers' = timers \ {i}
  /\ net' = FetchFiles(net, Cause("upload", i))
  /\ UNCHANGED <<variant, selectedFile, youtubeUrl, uploadMode, fileType, files,
                 isProcessing, showDone, uploadStatus, serverFiles, submits,
                 callbacks, alerts, clicks, prompts>>
  /\ UNCHANGED <<dialogs, qvars, pvars>>

\* the setTimeout(..., 2000) callback of handleUpload
TimerFire(i) ==
  /\ i \in timers
  /\ timers' = timers \ {i}
  /\ isProcessing' = FALSE
  /\ showDone' = FALSE
  /\ net' = FetchFiles(net, Cause("upload", i))
  /\ UNCHANGED <<variant, selectedFile, youtubeUrl, uploadMode, fileType, files,
                 uploadStatus, serverFiles, submits, callbacks, alerts, clicks,
                 prompts>>
  /\ UNCHANGED <<dialogs, qvars, pvars>>

\* the backend answers a listing; the answer is on its way
ServeList(r) ==
  /\ InFlight(r)
  /\ net[r].method = "GET"
  /\ net' = [net EXCEPT ![r].st = "served", ![r].resp = BackendList]
  /\ UNCHANGED <<variant, selectedFile, youtubeUrl, uploadMode, fileType, files,
                 isProcessing, showDone, uploadStatus, timers, serverFiles, submits,
                 callbacks, alerts, clicks, prompts>>
  /\ UNCHANGED <<dialogs, qvars, pvars>>

\* setFiles(data.files || [])
Listed(body) == IF body.hasFiles THEN body.files ELSE <<>>

\* setFiles, were it to merge the response into the list it has
FetchFilesMerge(resp) ==
  IF JsonThrows(resp) THEN files ELSE files \o Listed(resp.body)

\* the list fetchFiles leaves: the catch block leaves it as it was
FetchFilesApply(resp) == IF JsonThrows(resp) THEN files ELSE Listed(resp.body)

\* the rest of fetchFiles once its GET has settled
FetchFilesSettled(r, resp) ==
  /\ r \in Reqs
  /\ net[r].method = "GET"
  /\ \/ net[r].st = "served" /\ resp = net[r].resp
     \/ net[r].st = "sent" /\ resp \in ListFailures
  /\ files' = FetchFilesApply(resp)
  /\ net' = Finish(net, r, resp)
  /\ UNCHANGED <<variant, selectedFile, youtubeUrl, uploadMode, fileType,
                 isProcessing, showDone, uploadStatus, timers, serverFiles, submits,
                 callbacks, alerts, clicks, prompts>>
  /\ UNCHANGED <<dialogs, qvars, pvars>>

\* the request handleDeleteFile sends for the file of dialog k
DeleteReq(filename, k) ==
  Req("DELETE", "/files/{filename}", Form(filename, <<>>, ""), Cause("delete", k))

\* handleDeleteFile, were it to send the request whatever the dialog's answer
HandleDeleteFileNoConfirm(i, confirmed) ==
  /\ variant = "overlay"
  /\ i \in DOMAIN files
  /\ clicks + prompts < MaxOps
  /\ prompts' = prompts + 1
  /\ dialogs' = Append(dialogs, [file |-> files[i].filename, ok |-> confirmed])
  /\ net' = Append(net, DeleteReq(files[i].filename, prompts + 1))
  /\ UNCHANGED <<variant, selectedFile, youtubeUrl, uploadMode, fileType, files,
                 isProcessing, showDone, uploadStatus, timers, serverFiles, submits,
                 callbacks, alerts, clicks>>
  /\ UNCHANGED <<qvars, pvars>>

\* handleDeleteFile up to its await: window.confirm, then one DELETE
HandleDeleteFile(i, confirmed) ==
  /\ variant = "overlay"
  /\ i \in DOMAIN files
  /\ clicks + prompts < MaxOps
  /\ prompts' = prompts + 1
  /\ dialogs' = Append(dialogs, [file |-> files[i].filename, ok |-> confirmed])
  /\ net' = IF confirmed
            THEN Append(net, DeleteReq(files[i].filename, prompts + 1))
            ELSE net
  /\ UNCHANGED <<variant, selectedFile, youtubeUrl, uploadMode, fileType, files,
                 isProcessing, showDone, uploadStatus, timers, serverFiles, submits,
                 callbacks, alerts, clicks>>
  /\ UNCHANGED <<qvars, pvars>>

\* the rest of handleDeleteFile once its DELETE has settled
DeleteSettled(r, o) ==
  /\ InFlight(r)
  /\ net[r].method = "DELETE"
  /\ o \in BackendDelete(net[r])
  /\ serverFiles' = o.registry
  /\ IF ResponseOk(o.resp)
     THEN /\ net' = FetchFiles(Finish(net, r, o.resp), net[r].cause)
          /\ UNCHANGED alerts
     ELSE /\ net' = Finish(net, r, o.resp)
          /\ alerts' = Append(alerts,
               IF JsonThrows(o.resp)
               THEN [msg |-> "Error deleting file. Please try again.", err |-> ""]
               ELSE [msg |-> "Error deleting file: ",
                     err |-> OrElse(o.resp.body.error, "Unknown error")])
  /\ UNCHANGED <<variant, selectedFile, youtubeUrl, uploadMode, fileType, files,
                 isProcessing, showDone, uploadStatus, timers, submits, callbacks,
                 clicks, prompts>>
  /\ UNCHANGED <<dialogs, qvars, pvars>>

\* the backend finishes processing a file
BackendProcess(i) ==
  /\ i \in DOMAIN serverFiles
  /\ ~serverFiles[i].processed
  /\ serverFiles' = [serverFiles EXCEPT ![i].processed = TRUE]
  /\ UNCHANGED <<variant, selectedFile, youtubeUrl, uploadMode, fileType, files,
                 isProcessing, showDone, uploadStatus, net, timers, submits,
                 callbacks, alerts, clicks, prompts>>
  /\ UNCHANGED <<dialogs, qvars, pvars>>

(* ------------------- the query view: handlers ------------------------- *)

\* the request handleQuery sends: POST /query/ with the question of the
\* render it was called in, and the history that render's closure holds
Ask(question, history) ==
  [n |-> sent + 1, inst |-> inst, question |-> question, closure |-> history]

\* handleQuery up to its await, QueryInterface
HandleQueryComponent ==
  IF Trim(query) = <<>>
  THEN UNCHANGED <<loading, error, answer, sources, asks, sent>>
  ELSE /\ loading' = TRUE
       /\ error' = ""
       /\ answer' = ""
       /\ sources' = <<>>
       /\ asks' = Append(asks, Ask(query, queryHistory))
       /\ sent' = sent + 1

\* handleQuery up to its await, App shell
HandleQueryShell ==
  /\ loading' = TRUE
  /\ error' = ""
  /\ answer' = ""
  /\ asks' = Append(asks, Ask(query, <<>>))
  /\ sent' = sent + 1
  /\ UNCHANGED sources

HandleQuery ==
  /\ IF view = "component" THEN HandleQueryComponent ELSE HandleQueryShell
  /\ UNCHANGED <<view, query, queryHistory, showHistory, storage, last, now, inst,
                 clears>>
  /\ UNCHANGED <<uvars, pvars>>

\* the disabled attribute of the Ask button
AskButtonDisabled ==
  IF view = "component" THEN loading \/ Trim(query) = <<>> ELSE loading

\* the Enter key, were it to start a query while one is loading
EnterIgnoredNever == FALSE

\* the Enter key does nothing: QueryInterface tests !loading, the shell nothing
EnterIgnored == view = "component" /\ loading

\* onChange of the question input: setQuery(e.target.value)
SetQuery(q) ==
  /\ query' = q
  /\ UNCHANGED <<view, answer, loading, error, sources, queryHistory, showHistory,
                 storage, asks, last, sent, now, inst, clears>>
  /\ UNCHANGED <<uvars, pvars>>

\* a click on the enabled Ask button
ClickAsk ==
  /\ ~AskButtonDisabled
  /\ HandleQuery

\* onKeyPress with the Enter key
PressEnter ==
  /\ IF EnterIgnored THEN UNCHANGED vars ELSE HandleQuery

\* handleSuggestedQuestion: the suggestions show while there is no answer
HandleSuggestedQuestion ==
  /\ view = "component"
  /\ answer = "" /\ ~loading
  /\ query' = Suggested
  /\ UNCHANGED <<view, answer, loading, error, sources, queryHistory, showHistory,
                 storage, asks, last, sent, now, inst, clears>>
  /\ UNCHANGED <<uvars, pvars>>

\* the history toggle: setShowHistory(!showHistory)
ToggleHistory ==
  /\ view = "component"
  /\ showHistory' = ~showHistory
  /\ UNCHANGED <<view, query, answer, loading, error, sources, queryHistory,
                 storage, asks, last, sent, now, inst, clears>>
  /\ UNCHANGED <<uvars, pvars>>

\* `historyItem.sources || []`
SourcesOrNone(item) == IF item.hasSources THEN item.sources ELSE <<>>

\* handleHistoryClick, were it to load the question only
HandleHistoryClickQuestionOnly(k) ==
  /\ view = "component"
  /\ showHistory
  /\ k \in DOMAIN queryHistory
  /\ query' = queryHistory[k].question
  /\ showHistory' = FALSE
  /\ UNCHANGED <<view, answer, sources, loading, error, queryHistory, storage, asks,
                 last, sent, now, inst, clears>>
  /\ UNCHANGED <<uvars, pvars>>

\* handleHistoryClick on the k-th entry of the list shown
HandleHistoryClick(k) ==
  /\ view = "component"
  /\ showHistory
  /\ k \in DOMAIN queryHistory
  /\ query' = queryHistory[k].question
  /\ answer' = queryHistory[k].answer
  /\ sources' = SourcesOrNone(queryHistory[k])
  /\ showHistory' = FALSE
  /\ UNCHANGED <<view, loading, error, queryHistory, storage, asks, last, sent, now,
                 inst, clears>>
  /\ UNCHANGED <<uvars, pvars>>

\* the first n elements of a sequence: slice(0, n)
Slice(s, n) == SubSeq(s, 1, IF Len(s) < n THEN Len(s) ELSE n)

\* the record of handleQuery, were it to read the input field on arrival
NewQueryFromInput(r, body) ==
  QueryRecord(now + 1, query, body.answer, body.hasSources, body.sources)

\* the record handleQuery builds from a successful response; id and timestamp
\* are read from the clock
NewQuery(r, body) ==
  QueryRecord(now + 1, r.question, body.answer, body.hasSources, body.sources)

\* saveQueryHistory, were it to keep every record
UpdatedNoLimit(newQuery, history) == <<newQuery>> \o history

\* saveQueryHistory: [newQuery, ...queryHistory].slice(0, 20)
Updated(newQuery, history) == Slice(<<newQuery>> \o history, HistoryLimit)

\* saveQueryHistory, were it to persist the list without the new record
PersistWithoutNew(updated) == Item(Stringify(Tail(updated)))

\* localStorage.setItem('queryHistory', JSON.stringify(updated))
Persist(updated) == Item(Stringify(updated))

\* the history a mount ends with: loadQueryHistory leaves the initial empty
\* list when there is no item
Loaded(item) == IF item.present THEN Parse(item.json) ELSE <<>>

\* the error text, were the fallback left out
QueryErrorNoFallback(resp) == resp.body.error

\* data.error || 'An error occurred while processing your question.'
QueryError(resp) ==
  OrElse(resp.body.error, "An error occurred while processing your question.")

\* `data.sources || []`
SourcesOf(body) == IF body.hasSources THEN body.sources ELSE <<>>

\* the rest of handleQuery once its POST has settled, QueryInterface.  The
\* set-state calls of an instance that is no longer mounted do nothing; its
\* write to localStorage does.
QuerySettledComponent(r, resp) ==
  LET updated == Updated(NewQuery(r, resp.body), r.closure)
      mounted == r.inst = inst
  IN IF JsonThrows(resp)
     THEN /\ error' = IF mounted
                      THEN "Failed to connect to the server. Please try again."
                      ELSE error
          /\ UNCHANGED <<answer, sources, queryHistory, storage, now>>
     ELSE IF ResponseOk(resp)
     THEN /\ answer' = IF mounted THEN resp.body.answer ELSE answer
          /\ sources' = IF mounted THEN SourcesOf(resp.body) ELSE sources
          /\ queryHistory' = IF mounted THEN updated ELSE queryHistory
          /\ storage' = Persist(updated)
          /\ now' = now + 1
          /\ UNCHANGED error
     ELSE /\ error' = IF mounted THEN QueryError(resp) ELSE error
          /\ UNCHANGED <<answer, sources, queryHistory, storage, now>>

\* the rest of handleQuery once its POST has settled, App shell
QuerySettledShell(r, resp) ==
  /\ IF resp.kind = "transport"
     THEN error' = "Failed to fetch" /\ UNCHANGED answer
     ELSE IF ~ResponseOk(resp)
     THEN error' = "Network response was not ok" /\ UNCHANGED answer
     ELSE answer' = resp.body.answer /\ UNCHANGED error
  /\ UNCHANGED <<sources, queryHistory, storage, now>>

\* clearHistory, were it to leave the stored item in place
ClearedItemKept == storage

\* localStorage.removeItem('queryHistory')
ClearedItem == NoItem

\* clearHistory; its button shows while the history is not empty
ClearHistory ==
  /\ view = "component"
  /\ queryHistory # <<>>
  /\ queryHistory' = <<>>
  /\ storage' = ClearedItem
  /\ clears' = clears + 1
  /\ UNCHANGED <<view, query, answer, loading, error, sources, showHistory, asks,
                 last, sent, now, inst>>
  /\ UNCHANGED <<uvars, pvars>>

\* a new instance mounts and runs loadQueryHistory: the tab is left and
\* entered again (the requests of the old instance stay in flight), or the
\* page is reloaded (they are dropped with the page)
Mount(reload) ==
  /\ view = "component"
  /\ inst' = inst + 1
  /\ query' = <<>>
  /\ answer' = ""
  /\ loading' = FALSE
  /\ error' = ""
  /\ sources' = <<>>
  /\ showHistory' = FALSE
  /\ queryHistory' = Loaded(storage)
  /\ asks' = IF reload THEN <<>> ELSE asks
  /\ UNCHANGED <<view, storage, last, sent, now, clears>>
  /\ UNCHANGED <<uvars, pvars>>

(* ------------------------- the query backend -------------------------- *)

\* POST /query/ answers 200 with an answer, with or without sources, or with
\* an error field in place of the answer; or it refuses with a non-2xx
\* response; or the transport fails
Answered == Resp("ok", QBody("gold", TRUE, <<"doc">>, ""))

BackendQuery ==
  {Answered,
   Resp("ok", QBody("gold", FALSE, <<>>, "")),
   Resp("ok", QBody("", FALSE, <<>>, "rejected")),
   Resp("bad_body", NoQBody),
   Resp("transport", NoQBody)}
    \cup {Resp("http_err", QBody("", FALSE, <<>>, e)) : e \in ErrorTexts}

\* the answers of a backend that is up and has an answer, and one refusal
BackendQuerySteady == {Answered, Resp("http_err", QBody("", FALSE, <<>>, "rejected"))}

\* the k-th request in flight settles with resp: the rest of handleQuery
QuerySettled(k, resp) ==
  /\ k \in DOMAIN asks
  /\ LET r == asks[k]
     IN /\ IF view = "component"
           THEN QuerySettledComponent(r, resp)
           ELSE QuerySettledShell(r, resp)
        /\ loading' = IF r.inst = inst THEN FALSE ELSE loading
        /\ last' = [n |-> r.n, inst |-> r.inst, question |-> r.question,
                    input |-> query, resp |-> resp]
        /\ asks' = [j \in 1..(Len(asks) - 1) |-> IF j < k THEN asks[j] ELSE asks[j + 1]]
  /\ UNCHANGED <<view, query, showHistory, sent, inst, clears>>
  /\ UNCHANGED <<uvars, pvars>>

(* -------------------- specifications of the query view ---------------- *)

\* the upload component is not on the page
NoUpload ==
  /\ variant = "overlay"
  /\ selectedFile = NoFile
  /\ youtubeUrl = <<>>
  /\ uploadMode = "file"
  /\ fileType = "document"
  /\ files = <<>>
  /\ isProcessing = FALSE
  /\ showDone = FALSE
  /\ uploadStatus = NoStatus
  /\ net = <<>>
  /\ timers = {}
  /\ serverFiles = <<>>
  /\ submits = <<>>
  /\ callbacks = <<>>
  /\ alerts = <<>>
  /\ clicks = 0
  /\ prompts = 0
  /\ dialogs = <<>>

InitQ ==
  /\ view \in Views
  /\ QueryMounted
  /\ storage = NoItem
  /\ asks = <<>>
  /\ last = NoAnswer
  /\ sent = 0
  /\ now = 0
  /\ inst = 0
  /\ clears = 0
  /\ NoUpload
  /\ ChartUnmounted
  /\ LearningUnmounted

CanAsk(max) == sent < max /\ Len(asks) < MaxOutstanding

NextQ ==
  \/ \E q \in Questions : sent < MaxAsks /\ SetQuery(q)
  \/ CanAsk(MaxAsks) /\ ClickAsk
  \/ CanAsk(MaxAsks) /\ PressEnter
  \/ sent < MaxAsks /\ HandleSuggestedQuestion
  \/ ToggleHistory
  \/ \E k \in DOMAIN queryHistory : HandleHistoryClick(k)
  \/ \E k \in DOMAIN asks : \E resp \in BackendQuery : QuerySettled(k, resp)
  \/ clears < MaxClears /\ ClearHistory
  \/ \E reload \in BOOLEAN : inst < MaxMounts /\ Mount(reload)

SpecQ == InitQ /\ [][NextQ]_vars

\* one QueryInterface instance, asked question after question
InitLong == InitQ /\ view = "component"

NextLong ==
  \/ \E q \in Questions : sent < MaxLongAsks /\ SetQuery(q)
  \/ CanAsk(MaxLongAsks) /\ ClickAsk
  \/ CanAsk(MaxLongAsks) /\ PressEnter
  \/ \E k \in DOMAIN asks : \E resp \in BackendQuerySteady : QuerySettled(k, resp)

SpecLong == InitLong /\ [][NextLong]_vars

\* one QueryInterface instance whose input is edited, and whose history is
\* browsed, at any time, also while a request is in flight
NextEdit ==
  \/ \E q \in EditQuestions : SetQuery(q)
  \/ CanAsk(MaxEditAsks) /\ ClickAsk
  \/ CanAsk(MaxEditAsks) /\ PressEnter
  \/ ToggleHistory
  \/ \E k \in DOMAIN queryHistory : HandleHistoryClick(k)
  \/ \E k \in DOMAIN asks : \E resp \in BackendQuerySteady : QuerySettled(k, resp)

SpecEdit == InitLong /\ [][NextEdit]_vars

(* ----------------------- the market panel's steps --------------------- *)

\* status.status || 'Unknown'
OrUnknown(status) == IF status = "" THEN "Unknown" ELSE status

\* liveData.current_price || 0
OrZero(price) == IF price = NoPrice \/ price = 0 THEN 0 ELSE price

\* new Date().toLocaleTimeString()
TimeString(t) == <<t>>

\* setInterval(loadMarketData, 30000), loadMarketData being the callback of
\* the render for symbol s
SetInterval(set, s) == set \cup {s}

\* the effect cleanup, were it to leave the interval running
ClearIntervalNever(set, s) == set

\* clearInterval(interval), in the cleanup of the auto-refresh effect
ClearInterval(set, s) == set \ {s}

\* loadMarketData of instance i for symbol s, up to its await: both calls
\* are issued
LoadMarketData(s, i, by) ==
  /\ startedBy' = by
  /\ isLoading' = TRUE
  /\ chartError' = NoError
  /\ loads' = Append(loads, Load(started + 1, i, s))
  /\ started' = started + 1

\* TradingChart is mounted: the widget effect calls loadMarketData, the
\* auto-refresh effect sets the interval
MountChart ==
  /\ ~chartMounted
  /\ chartMounted' = TRUE
  /\ chart' = chart + 1
  /\ lastUpdate' = <<>>
  /\ currentPrice' = 0
  /\ marketStatus' = "Unknown"
  /\ shown' = 0
  /\ intervals' = SetInterval(intervals, symbol)
  /\ LoadMarketData(symbol, chart + 1, "mount")
  /\ UNCHANGED <<symbol, lastLoad, clock>>
  /\ UNCHANGED <<uvars, qvars, lvars>>

\* the symbol prop changes: loadMarketData is a new callback, both effects
\* run again, the auto-refresh effect after its cleanup
ChangeSymbol(s) ==
  /\ chartMounted
  /\ s # symbol
  /\ symbol' = s
  /\ intervals' = SetInterval(ClearInterval(intervals, symbol), s)
  /\ LoadMarketData(s, chart, "symbol")
  /\ UNCHANGED <<chartMounted, lastUpdate, currentPrice, marketStatus, lastLoad,
                 clock, chart, shown>>
  /\ UNCHANGED <<uvars, qvars, lvars>>

\* the interval callback for symbol s runs
Tick(s) ==
  /\ s \in intervals
  /\ LoadMarketData(s, chart, "tick")
  /\ UNCHANGED <<chartMounted, symbol, lastUpdate, currentPrice, marketStatus,
                 intervals, lastLoad, clock, chart, shown>>
  /\ UNCHANGED <<uvars, qvars, lvars>>

\* the Refresh button: disabled={isLoading}
RefreshDisabled == isLoading

\* a click on the enabled Refresh button
ClickRefresh ==
  /\ chartMounted
  /\ ~RefreshDisabled
  /\ LoadMarketData(symbol, chart, "click")
  /\ UNCHANGED <<chartMounted, symbol, lastUpdate, currentPrice, marketStatus,
                 intervals, lastLoad, clock, chart, shown>>
  /\ UNCHANGED <<uvars, qvars, lvars>>

\* TradingChart is unmounted: the cleanup of the auto-refresh effect runs
UnmountChart ==
  /\ chartMounted
  /\ chartMounted' = FALSE
  /\ intervals' = ClearInterval(intervals, symbol)
  /\ UNCHANGED <<symbol, lastUpdate, currentPrice, marketStatus, isLoading,
                 chartError, loads, lastLoad, started, startedBy, clock, chart,
                 shown>>
  /\ UNCHANGED <<uvars, qvars, lvars>>

RemoveLoad(k) == [j \in 1..(Len(loads) - 1) |-> IF j < k THEN loads[j] ELSE loads[j + 1]]

\* the set-state calls of an instance that is no longer mounted do nothing
Live(l) == chartMounted /\ l.inst = chart

\* the three setters after the await, were the status written as soon as the
\* status call has resolved
DisplayedStatusFirst(l, status, live) ==
  /\ marketStatus' = IF Live(l) /\ status.kind = "ok"
                      THEN OrUnknown(status.value) ELSE marketStatus
  /\ currentPrice' = IF Live(l) /\ status.kind = "ok" /\ live.kind = "ok"
                      THEN OrZero(live.value) ELSE currentPrice
  /\ lastUpdate' = IF Live(l) /\ status.kind = "ok" /\ live.kind = "ok"
                    THEN TimeString(clock') ELSE lastUpdate

\* what loadMarketData call l displays once its calls have the outcomes
\* status and live: the three setters run after Promise.all has resolved
Displayed(l, status, live) ==
  IF Live(l) /\ status.kind = "ok" /\ live.kind = "ok"
  THEN /\ marketStatus' = OrUnknown(status.value)
       /\ currentPrice' = OrZero(live.value)
       /\ lastUpdate' = TimeString(clock')
  ELSE UNCHANGED <<marketStatus, currentPrice, lastUpdate>>

\* the rest of loadMarketData call k, whose calls have the outcomes status
\* and live, one of them possibly pending: nothing while Promise.all is
\* pending, the catch block once a call has failed, the setters once both
\* have resolved, and the finally block in both cases
Continue(k, status, live) ==
  LET l == loads[k]
      failed == status.kind = "failed" \/ live.kind = "failed"
      resolved == status.kind = "ok" /\ live.kind = "ok"
  IN /\ clock' = IF resolved THEN clock + 1 ELSE clock
     /\ Displayed(l, status, live)
     /\ IF failed \/ resolved
        THEN /\ loads' = RemoveLoad(k)
             /\ lastLoad' = [n |-> l.n, inst |-> l.inst, ok |-> resolved,
                             status |-> status, live |-> live]
             /\ isLoading' = IF Live(l) THEN FALSE ELSE isLoading
             /\ chartError' = IF Live(l) /\ failed
                              THEN "Failed to load market data" ELSE chartError
             /\ shown' = IF Live(l) /\ resolved THEN l.n ELSE shown
        ELSE /\ loads' = [loads EXCEPT ![k] = [@ EXCEPT !.status = status, !.live = live]]
             /\ UNCHANGED <<lastLoad, isLoading, chartError, shown>>
     /\ UNCHANGED <<chartMounted, symbol, intervals, started, startedBy, chart>>
     /\ UNCHANGED <<uvars, qvars, lvars>>

\* getMarketStatus of loadMarketData call k settles
StatusSettles(k, out) ==
  /\ k \in DOMAIN loads
  /\ loads[k].status.kind = "pending"
  /\ Continue(k, out, loads[k].live)

\* getLiveData of loadMarketData call k settles
LiveSettles(k, out) ==
  /\ k \in DOMAIN loads
  /\ loads[k].live.kind = "pending"
  /\ Continue(k, loads[k].status, out)

\* the market panel; the other views are idle
InitM == InitLong

CanLoad == started < MaxRefreshes /\ Len(loads) < MaxLoads

NextM ==
  \/ chart < MaxChartMounts /\ CanLoad /\ MountChart
  \/ \E s \in Symbols : CanLoad /\ ChangeSymbol(s)
  \/ \E s \in intervals : CanLoad /\ Tick(s)
  \/ CanLoad /\ ClickRefresh
  \/ UnmountChart
  \/ \E k \in DOMAIN loads : \E out \in StatusOutcomes : StatusSettles(k, out)
  \/ \E k \in DOMAIN loads : \E out \in LiveOutcomes : LiveSettles(k, out)

SpecM == InitM /\ [][NextM]_vars

(* ----------------------- the Learning view's steps -------------------- *)

\* outcomes of GET /learning/stats/: the statistics, a non-2xx status, or a
\* throw of fetch or response.json() with its message
StatsResponses ==
  {[kind |-> "ok", data |-> Stats(c, p, i, tl, ct), message |-> ""] :
     c \in Sizes, p \in Sizes, i \in Sizes, tl \in Sizes, ct \in Sizes}
    \cup {[kind |-> "http_err", data |-> NoStats, message |-> "Error: 500"]}
    \cup {[kind |-> "threw", data |-> NoStats, message |-> m] : m \in {"Failed to fetch", ""}}

\* fetchLearningStats up to its await
FetchLearningStats ==
  /\ learnLoading' = TRUE
  /\ learnError' = ""
  /\ fetching' = fetching + 1
  /\ fetches' = fetches + 1

\* Learning is mounted: its effect calls fetchLearningStats
MountLearning ==
  /\ ~learnMounted
  /\ learnMounted' = TRUE
  /\ FetchLearningStats
  /\ UNCHANGED <<stats, activeTab>>
  /\ UNCHANGED <<uvars, qvars, mvars>>

\* the 'Refresh Data' button
ClickRefreshData ==
  /\ learnMounted
  /\ FetchLearningStats
  /\ UNCHANGED <<learnMounted, stats, activeTab>>
  /\ UNCHANGED <<uvars, qvars, mvars>>

\* the 'Try Again' button of the error box
ClickTryAgain ==
  /\ learnMounted
  /\ ~learnLoading /\ learnError # ""
  /\ FetchLearningStats
  /\ UNCHANGED <<learnMounted, stats, activeTab>>
  /\ UNCHANGED <<uvars, qvars, mvars>>

\* a tab button: setActiveTab
SetActiveTab(tab) ==
  /\ learnMounted
  /\ activeTab' = tab
  /\ UNCHANGED <<learnMounted, stats, learnLoading, learnError, fetching, fetches>>
  /\ UNCHANGED <<uvars, qvars, mvars>>

\* err.message || 'Failed to fetch learning statistics'
OrFailed(message) ==
  IF message = "" THEN "Failed to fetch learning statistics" ELSE message

\* the rest of fetchLearningStats, with the outcome of its request
StatsSettled(resp) ==
  /\ fetching > 0
  /\ fetching' = fetching - 1
  /\ IF resp.kind = "ok"
     THEN stats' = resp.data /\ UNCHANGED learnError
     ELSE learnError' = OrFailed(resp.message) /\ UNCHANGED stats
  /\ learnLoading' = FALSE
  /\ UNCHANGED <<learnMounted, activeTab, fetches>>
  /\ UNCHANGED <<uvars, qvars, mvars>>

\* the Learning view; the other views are idle
InitL == InitLong

NextL ==
  \/ fetches < MaxFetches /\ MountLearning
  \/ fetches < MaxFetches /\ ClickRefreshData
  \/ fetches < MaxFetches /\ ClickTryAgain
  \/ \E tab \in Tabs : SetActiveTab(tab)
  \/ \E resp \in StatsResponses : StatsSettled(resp)

SpecL == InitL /\ [][NextL]_vars

(* --------------------------- specification ---------------------------- *)

Next ==
  \/ \E f \in FileNames : HandleFileChange(f)
  \/ \E u \in Urls : HandleYoutubeUrlChange(u)
  \/ \E m \in {"file", "youtube"} : SetUploadMode(m)
  \/ \E t \in FileTypes : HandleFileTypeChange(t)
  \/ ClickUpload
  \/ SubmitEmpty
  \/ \E r \in Reqs : \E o \in BackendUpload(net[r]) : UploadSettled(r, o)
  \/ \E i \in timers : TimerFire(i)
  \/ \E r \in Reqs : ServeList(r)
  \/ \E r \in Reqs : \E resp \in {net[r].resp} \cup ListFailures : FetchFilesSettled(r, resp)
  \/ \E i \in DOMAIN files, confirmed \in BOOLEAN : HandleDeleteFile(i, confirmed)
  \/ \E r \in Reqs : \E o \in BackendDelete(net[r]) : DeleteSettled(r, o)
  \/ \E i \in DOMAIN serverFiles : BackendProcess(i)

Spec == Init /\ [][Next]_vars

\* the overlay variant, with every POST settling and every display-delay
\* timer firing
InitLive == Init /\ variant = "overlay"

SpecLive ==
  /\ InitLive
  /\ [][Next]_vars
  /\ WF_vars(\E r \in Reqs : \E o \in BackendUpload(net[r]) : UploadSettled(r, o))
  /\ WF_vars(\E i \in timers : TimerFire(i))


(* ----------------------------- properties ----------------------------- *)

Subs == DOMAIN submits

\* the POSTs, and the registry refreshes, issued because of submit i
PostsOf(i) == {r \in Reqs : net[r].method = "POST" /\ net[r].cause = Cause("upload", i)}

RefreshesOf(i) == {r \in Reqs : net[r].method = "GET" /\ net[r].cause = Cause("upload", i)}

\* submit i's POST returned HTTP success, and handleUpload has seen it
HttpSuccess(i) ==
  \E r \in PostsOf(i) : net[r].st = "done" /\ net[r].resp.kind = "ok"

\* submit i's POST failed (non-2xx, or the transport), and handleUpload has seen it
FailedUpload(i) ==
  \E r \in PostsOf(i) :
    net[r].st = "done" /\ net[r].resp.kind \in {"http_err", "bad_body", "transport"}

\* C1: overlay variant: a failed upload returns the status to idle and
\* triggers no registry refresh (none issued, none scheduled).
C1_FailedUploadIdleNoRefresh ==
  variant = "overlay" =>
    \A i \in Subs :
      FailedUpload(i) =>
        /\ RefreshesOf(i) = {}
        /\ i \notin timers
        /\ i = Len(submits) => ~isProcessing /\ ~showDone

\* C2: overlay variant: the status is 'done' (showDone) only after the POST of
\* the submit being shown returned HTTP success.
C2_DoneOnlyAfterSuccess ==
  variant = "overlay" /\ showDone => HttpSuccess(Len(submits))

\* an error message about an upload is in front of the user: the status line
\* of the text variant, or an alert that is not one of the delete alerts
UploadErrorShown ==
  \/ uploadStatus.msg = "Upload failed: "
  \/ \E k \in DOMAIN alerts :
       alerts[k].msg \notin {"Error deleting file: ",
                             "Error deleting file. Please try again."}

\* C3: overlay variant: whenever an upload has failed, an error message is
\* surfaced to the user.
C3_FailedUploadSurfacesError ==
  variant = "overlay" =>
    \A i \in Subs : FailedUpload(i) /\ i = Len(submits) => UploadErrorShown

\* nothing to submit: file mode without a file, or URL mode with an empty or
\* whitespace-only URL
EmptyPayload ==
  \/ uploadMode = "file" /\ selectedFile = NoFile
  \/ uploadMode = "youtube" /\ \A k \in DOMAIN youtubeUrl : youtubeUrl[k] = " "

\* C4: a handleUpload invocation with an empty payload issues no network call
\* and leaves the processing/done status as it was.
C4_EmptySubmitIsNoOp ==
  [][(clicks' = clicks + 1 /\ EmptyPayload) =>
       (net' = net /\ isProcessing' = isProcessing /\ showDone' = showDone)]_vars

\* an empty submit has happened, and a whitespace-only URL is in the field
C4_Witness ==
  /\ clicks > Len(submits)
  /\ uploadMode = "youtube"
  /\ youtubeUrl = <<" ">>

\* C5: every accepted submit has exactly one POST, to /upload/ in file mode
\* and to /upload-youtube/ in URL mode, and there is no POST besides these.
C5_OnePostPerSubmit ==
  /\ \A i \in Subs :
       \E r \in Reqs :
         /\ PostsOf(i) = {r}
         /\ net[r].path = IF submits[i].mode = "file" THEN "/upload/"
                          ELSE "/upload-youtube/"
  /\ Cardinality({r \in Reqs : net[r].method = "POST"}) = Len(submits)

\* two submits, one of each mode, the first of them failed and was not retried
C5_Witness ==
  /\ Len(submits) = 2
  /\ submits[1].mode # submits[2].mode
  /\ FailedUpload(1)

\* C6: for every upload whose POST returned HTTP 200 the registry refresh is
\* triggered exactly once: one GET /files/ issued, or the one timer pending
\* that will issue it.
C6_RefreshOncePerSuccess ==
  \A i \in Subs :
    HttpSuccess(i) =>
      Cardinality(RefreshesOf(i)) + (IF i \in timers THEN 1 ELSE 0) = 1

\* overlay variant: two uploads succeeded, and the timer of each has fired
\* and issued its refresh
C6_Witness ==
  /\ variant = "overlay"
  /\ Len(submits) = 2
  /\ \A i \in Subs : HttpSuccess(i) /\ Cardinality(RefreshesOf(i)) = 1

CallsFor(i) == {k \in DOMAIN callbacks : callbacks[k].sub = i}

\* C7: onUpload is called exactly once, with the acknowledgment the backend
\* returned, for every upload whose POST returned HTTP success, and never for
\* any other.
C7_CallbackOncePerSuccess ==
  /\ \A k \in DOMAIN callbacks : callbacks[k].sub \in Subs
  /\ \A i \in Subs :
       IF HttpSuccess(i)
       THEN \E k \in DOMAIN callbacks, r \in PostsOf(i) :
              /\ CallsFor(i) = {k}
              /\ callbacks[k].result = net[r].resp.body
              /\ callbacks[k].result.filename =
                   (IF submits[i].mode = "file" THEN submits[i].file ELSE "")
              /\ callbacks[k].result.url =
                   (IF submits[i].mode = "file" THEN <<>> ELSE submits[i].url)
       ELSE CallsFor(i) = {}

\* one upload succeeded and was called back once, and one submit was rejected
\* locally
C7_Witness ==
  /\ Len(submits) = 1
  /\ HttpSuccess(1)
  /\ Len(callbacks) = 1
  /\ clicks = 2

\* C8: no upload POST is issued while an earlier upload POST of the same
\* component instance is outstanding.
C8_OneUploadOutstanding ==
  Cardinality({r \in Reqs : net[r].method = "POST" /\ net[r].st = "sent"}) <= 1

\* C9: overlay variant: after an upload or delete the backend accepted, once
\* every request has completed, all of them successfully, the local list is
\* the backend's listing (compared by filename, the key of the registry).
C9_RegistryReconciled ==
  ( /\ variant = "overlay"
    /\ timers = {}
    /\ \A r \in Reqs : net[r].st = "done" /\ net[r].resp.kind = "ok"
    /\ \A r \in Reqs : net[r].method = "GET" => net[r].resp.body.hasFiles
    /\ \E r \in Reqs : net[r].method \in {"POST", "DELETE"} )
  => Names(files) = Names(serverFiles)

\* C10: applying a listing response replaces the local list by the files of
\* the response, and by the empty list when it has no files field.
C10_RefreshIsFullReplace ==
  [][\A r \in Reqs :
       ( /\ net[r].method = "GET"
         /\ net[r].st # "done"
         /\ net'[r].st = "done"
         /\ net'[r].resp.kind \in {"ok", "http_err"} )
       => files' = IF net'[r].resp.body.hasFiles THEN net[r].resp.body.files
                   ELSE <<>>]_vars

\* the list showed a file, its delete succeeded, and the listing applied
\* after it left the list empty
C10_Witness ==
  /\ files = <<>>
  /\ \E r \in Reqs : net[r].method = "DELETE" /\ net[r].st = "done" /\ net[r].resp.kind = "ok"
  /\ \A r \in Reqs : net[r].method = "GET" =>
       net[r].st = "done" /\ net[r].resp.kind = "ok" /\ net[r].resp.body.hasFiles

\* the alert handleDeleteFile shows for a response that is not a success
DeleteAlertFor(resp) ==
  IF resp.kind \in {"transport", "bad_body"}
  THEN [msg |-> "Error deleting file. Please try again.", err |-> ""]
  ELSE [msg |-> "Error deleting file: ",
        err |-> IF resp.body.error # "" THEN resp.body.error ELSE "Unknown error"]

\* C11: when a DELETE settles as a failure (non-2xx, or the transport), one
\* alert is shown, with the server's error text or a fallback, the local list
\* is left as it was and no request (no refresh) is issued.
C11_FailedDeleteSurfacesError ==
  [][\A r \in Reqs :
       ( /\ net[r].method = "DELETE"
         /\ net[r].st = "sent"
         /\ net'[r].st = "done"
         /\ net'[r].resp.kind # "ok" )
       => /\ alerts' = Append(alerts, DeleteAlertFor(net'[r].resp))
          /\ files' = files
          /\ Len(net') = Len(net)]_vars

\* the list shows a file the backend no longer knows; its delete was refused
\* with the server's error text, which the alert shows
C11_Witness ==
  /\ files # <<>>
  /\ alerts # <<>>
  /\ alerts[Len(alerts)] = [msg |-> "Error deleting file: ", err |-> "rejected"]
  /\ \E r \in Reqs :
       /\ net[r].method = "DELETE"
       /\ net[r].st = "done"
       /\ net[r].resp.kind = "http_err"
       /\ \A g \in Reqs : net[g].cause # net[r].cause \/ g = r

\* C12: a delete dialog that is declined sends nothing and leaves the local
\* list as it was; one that is accepted sends exactly one DELETE, for the file
\* the dialog named.
C12_DeleteOnlyIfConfirmed ==
  [][prompts' = prompts + 1 =>
       /\ Len(dialogs') = prompts'
       /\ files' = files
       /\ LET d == dialogs'[Len(dialogs')]
          IN /\ \E i \in DOMAIN files : files[i].filename = d.file
             /\ net' = IF d.ok
                       THEN Append(net, DeleteReq(d.file, prompts'))
                       ELSE net]_vars

\* one dialog was declined and the next one accepted: one DELETE was sent
C12_Witness ==
  /\ Len(dialogs) = 2
  /\ ~dialogs[1].ok
  /\ dialogs[2].ok
  /\ Cardinality({r \in Reqs : net[r].method = "DELETE"}) = 1

\* the query requests of the mounted instance that are in flight
Outstanding == {k \in DOMAIN asks : asks[k].inst = inst}

\* C13: QueryInterface has at most one query request of the mounted instance
\* outstanding, and loading is true while it is.
C13_OneQueryOutstanding ==
  view = "component" =>
    /\ Cardinality(Outstanding) <= 1
    /\ Outstanding # {} => loading

\* QueryInterface is loading its second query; the input holds a question,
\* so only the loading flag keeps the Enter key from sending it
C13_Witness ==
  /\ view = "component"
  /\ loading
  /\ Cardinality(Outstanding) = 1
  /\ sent = 2
  /\ Trim(query) # <<>>

\* C14: one QueryInterface instance, started with an empty history: after N
\* queries have succeeded the history holds the min(N, 20) most recent
\* records, the most recent first (the k-th entry is the record of the
\* (N - k + 1)-th success).
C14_HistoryIsLatestTwenty ==
  /\ Len(queryHistory) = (IF now < HistoryLimit THEN now ELSE HistoryLimit)
  /\ \A k \in DOMAIN queryHistory : queryHistory[k].id = now - k + 1

\* 21 queries have succeeded: the history holds records 21 down to 2
C14_Witness ==
  /\ now = HistoryLimit + 1
  /\ Len(queryHistory) = HistoryLimit
  /\ queryHistory[1].id = HistoryLimit + 1
  /\ queryHistory[HistoryLimit].id = 2

\* the mounted instance records a successful query
Recorded == now' = now + 1 /\ last'.inst = inst

\* C15: after the mounted instance records a successful query or clears the
\* history, the persisted history, read back, is the in-memory history (no
\* item reads as the empty list).
C15_PersistedEqualsMemory ==
  [][(Recorded \/ clears' = clears + 1) => Loaded(storage') = queryHistory']_vars

\* the history was cleared and queries were recorded after it: memory and
\* store hold the same, non-empty list
C15_Witness ==
  /\ inst = 0
  /\ clears = 1
  /\ queryHistory # <<>>
  /\ Len(queryHistory) < now
  /\ storage.present
  /\ asks = <<>>

\* a query request of the mounted instance settles as a failure
QueryFailed ==
  /\ last'.n # last.n
  /\ last'.inst = inst
  /\ last'.resp.kind \in {"http_err", "bad_body", "transport"}

\* C16: when a query fails (non-2xx response, or the transport) an error
\* message is displayed and the history, in memory and persisted, is left as
\* it was.
C16_FailedQueryKeepsHistory ==
  [][QueryFailed =>
       /\ error' # ""
       /\ queryHistory' = queryHistory
       /\ storage' = storage]_vars

\* a refusal without an error text was shown with the fallback message, and
\* the history still holds the record of an earlier query
C16_Witness ==
  /\ last.resp = Resp("http_err", NoQBody)
  /\ last.inst = inst
  /\ error = "An error occurred while processing your question."
  /\ queryHistory # <<>>
  /\ storage.present

\* C17: clearHistory empties the in-memory list and removes the stored item,
\* and a mount that finds no stored item starts with an empty history.
C17_ClearEmptiesBoth ==
  [][/\ clears' = clears + 1 => queryHistory' = <<>> /\ storage' = NoItem
     /\ (inst' = inst + 1 /\ ~storage.present) => queryHistory' = <<>>]_vars

\* records were saved, the history was cleared, and the instance mounted
\* since finds nothing
C17_Witness ==
  /\ now > 0
  /\ clears = 1
  /\ inst = 1
  /\ ~storage.present
  /\ queryHistory = <<>>
  /\ asks = <<>>

\* a history entry is selected: the list closes and the active view changes
HistorySelected ==
  /\ showHistory /\ ~showHistory'
  /\ inst' = inst
  /\ <<query, answer, sources>>' # <<query, answer, sources>>

\* C18: selecting a history entry sets question, answer and sources to those
\* of the entry (no sources reads as the empty list), issues no request and
\* leaves the history, in memory and persisted, as it was.
C18_HistoryClickLoadsEntry ==
  [][HistorySelected =>
       /\ \E k \in DOMAIN queryHistory :
            /\ query' = queryHistory[k].question
            /\ answer' = queryHistory[k].answer
            /\ sources' = IF queryHistory[k].hasSources
                          THEN queryHistory[k].sources ELSE <<>>
       /\ asks' = asks
       /\ sent' = sent
       /\ queryHistory' = queryHistory
       /\ storage' = storage]_vars

\* after a failed query an entry without sources was selected: its answer is
\* in the view next to the error of the failed query
C18_Witness ==
  /\ view = "component"
  /\ error # ""
  /\ answer = "gold"
  /\ sources = <<>>
  /\ query = <<"q">>
  /\ ~showHistory
  /\ \E k \in DOMAIN queryHistory : ~queryHistory[k].hasSources

\* C19: no query request carries an empty or whitespace-only question.
C19_NoBlankQuestionSent ==
  \A k \in DOMAIN asks : Trim(asks[k].question) # <<>>

\* a response with an error field is delivered to the mounted instance
ErrorFieldDelivered ==
  /\ last'.n # last.n
  /\ last'.inst = inst
  /\ last'.resp.kind \in {"ok", "http_err"}
  /\ last'.resp.body.error # ""

\* C20: QueryInterface: a response that carries an error field, in a 200
\* payload or in a non-2xx body, has its error text displayed as it is, and is
\* not recorded as an answered query.
C20_ErrorFieldShown ==
  [][(view = "component" /\ ErrorFieldDelivered) =>
       /\ error' = last'.resp.body.error
       /\ queryHistory' = queryHistory]_vars

\* C25: overlay variant: every accepted submit eventually returns the status
\* to idle (isProcessing and showDone both false), whatever the outcome of its
\* POST, given that the POST settles and the display-delay timer fires.
C25_SubmitReturnsToIdle ==
  (variant = "overlay" /\ isProcessing) ~> (~isProcessing /\ ~showDone)

\* overlay variant: a submit was refused by the backend, 'Done!' was shown,
\* the timer fired and the component is idle again
C25_Witness ==
  /\ variant = "overlay"
  /\ Len(submits) = 1
  /\ FailedUpload(1)
  /\ RefreshesOf(1) # {}
  /\ ~isProcessing /\ ~showDone
  /\ timers = {}

\* the records the view holds, in memory or in the store
Range(s) == {s[k] : k \in DOMAIN s}

Known == Range(queryHistory) \cup Range(Loaded(storage))

\* C26: from the clear on, the only records that enter the history, in memory
\* or persisted, are records created in that step: no record from before the
\* clear comes back.
C26_ClearNeverUndone ==
  [][clears' >= 1 =>
       \A rec \in Known' : rec \in Known \/ (now' = now + 1 /\ rec.id = now')]_vars

\* C28: overlay variant: a listing request that fails (the transport, or a
\* non-2xx response) leaves the local list as it was.
C28_FailedListingKeepsList ==
  [][\A r \in Reqs :
       ( /\ variant = "overlay"
         /\ net[r].method = "GET"
         /\ net[r].st # "done"
         /\ net'[r].st = "done"
         /\ net'[r].resp.kind \in {"transport", "http_err", "bad_body"} )
       => files' = files]_vars

\* C30: QueryInterface never shows an error message together with an answer.
C30_ErrorXorAnswer ==
  view = "component" => ~(error # "" /\ answer # "")

\* C29: the record a successful query stores holds the question that was sent
\* and the answer of that request's response, whatever the input field holds
\* when the response arrives.
C29_RecordIsWhatWasSent ==
  [][(view = "component" /\ now' = now + 1) =>
       LET rec == Head(Loaded(storage'))
       IN /\ rec.question = last'.question
          /\ rec.answer = last'.resp.body.answer
          /\ last'.inst = inst => queryHistory'[1] = rec]_vars

\* a record was stored for a request whose input field had been changed to
\* another question while it was in flight
C29_Witness ==
  /\ view = "component"
  /\ last.n > 0
  /\ ResponseOk(last.resp)
  /\ Trim(last.input) # <<>>
  /\ last.input # last.question
  /\ queryHistory # <<>>
  /\ queryHistory[1].id = now
  /\ queryHistory[1].question = last.question
  /\ answer = last.resp.body.answer

\* a loadMarketData call completed in this step
LoadCompleted == lastLoad'.n # lastLoad.n

\* C21: price, status and last-update time change only in a step in which a
\* loadMarketData call whose two calls both succeeded completes, and then all
\* three are written from that call's responses; a call of which either call
\* failed leaves the three as they were and sets the error banner.
C21_AllOrNothing ==
  [][chart' = chart =>
       /\ <<marketStatus', currentPrice', lastUpdate'>> # <<marketStatus, currentPrice, lastUpdate>>
            => /\ LoadCompleted
               /\ lastLoad'.ok
               /\ lastLoad'.status.kind = "ok" /\ lastLoad'.live.kind = "ok"
               /\ marketStatus' = OrUnknown(lastLoad'.status.value)
               /\ currentPrice' = OrZero(lastLoad'.live.value)
               /\ lastUpdate' = TimeString(clock')
       /\ (LoadCompleted /\ ~lastLoad'.ok)
            => /\ <<marketStatus', currentPrice', lastUpdate'>> = <<marketStatus, currentPrice, lastUpdate>>
               /\ (chartMounted /\ lastLoad'.inst = chart) => chartError' = "Failed to load market data"]_vars

\* values are displayed, and a later call, whose status call succeeded and
\* whose live-data call failed while another call was outstanding, has left
\* them as they were and set the banner
C21_Witness ==
  /\ chartMounted
  /\ shown > 0
  /\ lastLoad.n > shown
  /\ lastLoad.inst = chart
  /\ ~lastLoad.ok
  /\ lastLoad.status.kind = "ok"
  /\ lastLoad.live.kind = "failed"
  /\ loads # <<>>
  /\ chartError = "Failed to load market data"
  /\ marketStatus = "open"
  /\ currentPrice = 2

\* the loadMarketData calls of the mounted instance that have not completed
LoadsOutstanding == {k \in DOMAIN loads : chartMounted /\ loads[k].inst = chart}

\* C22: isLoading is true, and with it the Refresh button disabled, whenever
\* a loadMarketData call of the panel has not completed.
C22_LoadingWhileOutstanding ==
  LoadsOutstanding # {} => isLoading

\* a loadMarketData call is started in this step
Starts == started' # started

\* exactly one loadMarketData call is started in this step, for symbol s
StartsOne(s) ==
  /\ started' = started + 1
  /\ loads' = Append(loads, Load(started', chart', s))

\* C23: one refresh for the current symbol is started by the mount, by each
\* symbol change, by each interval tick and by each click on Refresh, and by
\* nothing else; the interval of the current symbol, and no other, is set
\* while the panel is mounted, and none once it is unmounted.
C23_RefreshStarts ==
  [][/\ chart' # chart => StartsOne(symbol') /\ startedBy' = "mount"
     /\ symbol' # symbol => StartsOne(symbol') /\ startedBy' = "symbol"
     /\ Starts =>
          /\ chartMounted'
          /\ startedBy' = "mount" <=> chart' # chart
          /\ startedBy' = "symbol" <=> symbol' # symbol
          /\ startedBy' \in {"tick", "click"} => chartMounted /\ StartsOne(symbol)
          /\ startedBy' = "tick" => symbol \in intervals
          /\ startedBy' = "click" => ~isLoading
     /\ intervals' = (IF chartMounted' THEN {symbol'} ELSE {})]_vars

\* the panel was mounted, its symbol changed, the interval of the new symbol
\* ticked, and the panel was unmounted: no interval is left
C23_Witness ==
  /\ ~chartMounted
  /\ chart = 1
  /\ symbol = "EURUSD"
  /\ startedBy = "tick"
  /\ started = 3
  /\ intervals = {}

\* C27: a loadMarketData call that completes successfully after a call
\* started later has written the displayed values leaves them as that later
\* call wrote them: what is displayed comes from the latest-started call among
\* the calls that completed successfully.
C27_NewestShown ==
  [][(LoadCompleted /\ lastLoad'.ok /\ chartMounted /\ lastLoad'.inst = chart /\ lastLoad'.n < shown)
       => /\ shown' = shown
          /\ <<marketStatus', currentPrice', lastUpdate'>> = <<marketStatus, currentPrice, lastUpdate>>]_vars

\* C24: the Learning view never renders a table without body rows: an empty
\* frequency map or timeline shows as an empty-state message.
C24_NoEmptyTable ==
  \A k \in DOMAIN renderContent :
    renderContent[k].what = "table" => renderContent[k].rows > 0

====
